---- MODULE Spec2Model ----
(***************************************************************************)
(* CPU scheduling simulator of Project1/main.go: the four schedulers       *)
(* FCFSSchedule, SJFSchedule, SJFPrioritySchedule and RRSchedule, each run *)
(* on the process slice that loadProcesses returned.  One step of the      *)
(* model is one iteration of a scheduler's loop (for RRSchedule, one       *)
(* iteration of the inner loop over the processes).                        *)
(*                                                                         *)
(* Indices are 1-based here and 0-based in the Go source; the value 0 of   *)
(* nextProcess stands for the source's -1 (nothing selected).              *)
(* float64 accumulators hold sums of small integers and are modelled as    *)
(* integers; a quotient of two of them is kept as the pair it is made of.  *)
(* A table row is the []string of seven columns, each column modelled as   *)
(* the integer fmt.Sprint renders in decimal; a nil row is <<>>.           *)
(* Within the bounds every value stays far below 2^63, so int64 arithmetic *)
(* is exact and is modelled on the integers.                               *)
(*                                                                         *)
(* main.go holds two copies of the program; the schedulers modelled here   *)
(* are those of the first copy (lines 78-367), and the RRSchedule of the   *)
(* second (lines 731-807), kept in rr2.  main calls them in a fixed        *)
(* order on the same slice; here any scheduler may be called first and any *)
(* one after a return, each call starting from fresh local variables.      *)
(***************************************************************************)
EXTENDS Integers, Sequences, FiniteSets, TLC

\* ------------------------------------------------------------------------
\* Bounds of the explored inputs
\* ------------------------------------------------------------------------
MaxN == 2

\* RRSchedule gives a process a second slice only when at least three
\* processes are given: its specifications explore one process more.
MaxNRR == 3

MaxArrival == 1

MaxBurst == 3

MaxPriority == 1

\* ------------------------------------------------------------------------
\* Program constants
\* ------------------------------------------------------------------------
quantum == 2

ColID == 1

ColPriority == 2

ColBurst == 3

ColArrival == 4

ColWait == 5

ColTurnaround == 6

ColExit == 7

Schedulers == {"FCFS", "SJF", "SJFPriority", "RR"}

VARIABLES
    processes,        \* the []Process slice every scheduler is called with
    sched,            \* the scheduler main is running ("none" before the first call)
    pc,               \* "idle" | "loop" | "return"
    serviceTime,
    totalWait,
    totalTurnaround,
    lastCompletion,
    waitingTime,
    schedule,         \* [][]string, one row per process index
    gantt,            \* []TimeSlice
    remainingBurst,   \* []int64 (unused by FCFS)
    completion,       \* time cursor of SJF, SJFPriority and RR
    nextProcess,      \* selection of the current SJF / SJFPriority iteration
    i,                \* loop index of FCFS; inner loop index of RR (0 = outer loop test)
    count,            \* float64(len(processes)), set when the loop is left
    rr2               \* the variables of two runs of the RRSchedule of lines 731-807

vars == <<processes, sched, pc, serviceTime, totalWait, totalTurnaround,
          lastCompletion, waitingTime, schedule, gantt, remainingBurst,
          completion, nextProcess, i, count, rr2>>

\* ------------------------------------------------------------------------
\* Types
\* ------------------------------------------------------------------------
Process(id, arrival, burst, priority) ==
    [ProcessID |-> id, ArrivalTime |-> arrival,
     BurstDuration |-> burst, Priority |-> priority]

TimeSlice(pid, start, stop) == [PID |-> pid, Start |-> start, Stop |-> stop]

NilRow == << >>

N == Len(processes)

\* The rows loadProcesses can return within the bounds: ids are unique and
\* either ascending or descending in input order.
Attributes == [ArrivalTime : 0..MaxArrival, BurstDuration : 1..MaxBurst,
               Priority : 0..MaxPriority]

IdOrders(n) == { [k \in 1..n |-> k], [k \in 1..n |-> n + 1 - k] }

LoadedProcesses(ids, a) ==
    [k \in 1..Len(ids) |-> Process(ids[k], a[k].ArrivalTime,
                                   a[k].BurstDuration, a[k].Priority)]

getBurstDurations(ps) == [k \in 1..Len(ps) |-> ps[k].BurstDuration]

\* Variant of InputAfterWrite for a getBurstDurations that hands out the
\* bursts of the slice itself: a write to remainingBurst is a write to
\* BurstDuration.
InputAfterSharedWrite(ps, rem) ==
    [k \in 1..Len(ps) |-> [ps[k] EXCEPT !.BurstDuration = rem[k]]]

\* The caller's slice after a scheduler has written rem to its remainingBurst:
\* getBurstDurations filled an array of its own (make), so the slice is as
\* it was.
InputAfterWrite(ps, rem) == ps

Row(p, wait, turnaround, exit) ==
    <<p.ProcessID, p.Priority, p.BurstDuration, p.ArrivalTime,
      wait, turnaround, exit>>

\* ------------------------------------------------------------------------
\* Initial state and calls
\* ------------------------------------------------------------------------
\* The two runs of the second RRSchedule that are compared.
Runs == 1..2

\* The variables of the second RRSchedule before it is called; pending is
\* the set of keys the range loop over the map has still to produce.
RR2NotCalled ==
    [pc |-> "idle", totalWait |-> 0, totalTurnaround |-> 0,
     schedule |-> << >>, gantt |-> << >>, currentTime |-> 0,
     remainingBurst |-> << >>, pending |-> {}, count |-> 0]

\* main before its first call: no scheduler's variables yet.
Entry ==
    /\ sched = "none"
    /\ pc = "idle"
    /\ serviceTime = 0
    /\ totalWait = 0
    /\ totalTurnaround = 0
    /\ lastCompletion = 0
    /\ waitingTime = 0
    /\ schedule = << >>
    /\ gantt = << >>
    /\ remainingBurst = << >>
    /\ completion = 0
    /\ nextProcess = 0
    /\ i = 0
    /\ count = 0
    /\ rr2 = [r \in Runs |-> RR2NotCalled]

\* main with the slice loadProcesses returned for a file of at most maxN
\* valid rows.
Loaded(maxN) ==
    /\ \E n \in 0..maxN : \E ids \in IdOrders(n) : \E a \in [1..n -> Attributes] :
          processes = LoadedProcesses(ids, a)
    /\ Entry

\* loadProcesses converts every field with ParseInt and tests none of them:
\* negative or zero fields and repeated ids are returned as they are read.
AnyAttributes == [ArrivalTime : -1..MaxArrival, BurstDuration : -1..MaxBurst,
                  Priority : 0..MaxPriority]

AnyIds(n) == [1..n -> 1..n]

InitUnvalidated ==
    /\ \E n \in 0..MaxN : \E ids \in AnyIds(n) : \E a \in [1..n -> AnyAttributes] :
          processes = LoadedProcesses(ids, a)
    /\ Entry

Init == Loaded(MaxN)

InitRR == Loaded(MaxNRR)

\* main calls a scheduler: its var block and the statements before its loop.
Call(s) ==
    /\ pc \in {"idle", "return"}
    /\ sched' = s
    /\ pc' = "loop"
    /\ serviceTime' = 0
    /\ totalWait' = 0
    /\ totalTurnaround' = 0
    /\ lastCompletion' = 0
    /\ waitingTime' = 0
    /\ schedule' = [k \in 1..N |-> NilRow]
    /\ gantt' = << >>
    /\ remainingBurst' = IF s = "FCFS" THEN << >> ELSE getBurstDurations(processes)
    /\ completion' = 0
    /\ nextProcess' = 0
    /\ i' = IF s = "FCFS" THEN 1 ELSE 0
    /\ count' = 0
    /\ UNCHANGED <<processes, rr2>>

\* The statements after a scheduler's loop: count and the three quotients
\* (totalWait / count, totalTurnaround / count, count / lastCompletion).
Return ==
    /\ pc' = "return"
    /\ count' = N
    /\ UNCHANGED <<processes, rr2, sched, serviceTime, totalWait, totalTurnaround,
                   lastCompletion, waitingTime, schedule, gantt,
                   remainingBurst, completion, nextProcess, i>>

\* ------------------------------------------------------------------------
\* FCFSSchedule
\* ------------------------------------------------------------------------
FCFSWait(p, service, wait) ==
    IF p.ArrivalTime > 0 THEN service - p.ArrivalTime ELSE wait

FCFSIter ==
    /\ sched = "FCFS" /\ pc = "loop" /\ i <= N
    /\ LET p == processes[i]
           w == FCFSWait(p, serviceTime, waitingTime)
           start == w + p.ArrivalTime
           turnaround == p.BurstDuration + w
           exit == p.BurstDuration + p.ArrivalTime + w
       IN /\ waitingTime' = w
          /\ totalWait' = totalWait + w
          /\ totalTurnaround' = totalTurnaround + turnaround
          /\ lastCompletion' = exit
          /\ schedule' = [schedule EXCEPT ![i] = Row(p, w, turnaround, exit)]
          /\ serviceTime' = serviceTime + p.BurstDuration
          /\ gantt' = Append(gantt, TimeSlice(p.ProcessID, start,
                                              serviceTime + p.BurstDuration))
    /\ i' = i + 1
    /\ UNCHANGED <<processes, rr2, sched, pc, remainingBurst, completion,
                   nextProcess, count>>

FCFSReturn ==
    /\ sched = "FCFS" /\ pc = "loop" /\ i > N
    /\ Return

\* ------------------------------------------------------------------------
\* SJFSchedule
\* ------------------------------------------------------------------------
\* The selection scan of one iteration: the range loop over processes from
\* index k on, with nextProcess = next so far.
\* Variant of SJFBetter in which a later process of equal remaining burst
\* displaces the one selected so far.
SJFBetterOrEqual(rem, k, next) == next = 0 \/ rem[k] <= rem[next]

\* The inner condition of the scan: process k displaces the selection so far.
SJFBetter(rem, k, next) == next = 0 \/ rem[k] < rem[next]

RECURSIVE SJFScan(_, _, _, _, _)
SJFScan(ps, rem, now, k, next) ==
    IF k > Len(ps) THEN next
    ELSE IF /\ rem[k] > 0
            /\ ps[k].ArrivalTime <= now
            /\ SJFBetter(rem, k, next)
         THEN SJFScan(ps, rem, now, k + 1, k)
         ELSE SJFScan(ps, rem, now, k + 1, next)

SJFSelect(ps, rem, now) == SJFScan(ps, rem, now, 1, 0)

\* Variant of SJFCursorAfter that moves the cursor by one unit.
SJFCursorAfterOneUnit(now, p) == now + 1

\* The cursor after process p has run to completion from time now.
SJFCursorAfter(now, p) == now + p.BurstDuration

\* No process selected: the cursor moves on by one.
SJFIdle ==
    /\ sched = "SJF" /\ pc = "loop" /\ completion < N
    /\ SJFSelect(processes, remainingBurst, completion) = 0
    /\ nextProcess' = 0
    /\ completion' = completion + 1
    /\ UNCHANGED <<processes, rr2, sched, pc, serviceTime, totalWait,
                   totalTurnaround, lastCompletion, waitingTime, schedule,
                   gantt, remainingBurst, i, count>>

\* The selected process loses one unit and still has some left.
SJFRun ==
    /\ sched = "SJF" /\ pc = "loop" /\ completion < N
    /\ LET next == SJFSelect(processes, remainingBurst, completion)
       IN /\ next # 0
          /\ remainingBurst[next] - 1 # 0
          /\ nextProcess' = next
          /\ serviceTime' = serviceTime + 1
          /\ remainingBurst' = [remainingBurst EXCEPT ![next] = @ - 1]
    /\ processes' = InputAfterWrite(processes, remainingBurst')
    /\ UNCHANGED <<rr2, sched, pc, totalWait, totalTurnaround,
                   lastCompletion, waitingTime, schedule, gantt, completion,
                   i, count>>

\* The selected process loses its last unit: its row and its slice are written.
SJFComplete ==
    /\ sched = "SJF" /\ pc = "loop" /\ completion < N
    /\ LET next == SJFSelect(processes, remainingBurst, completion)
       IN /\ next # 0
          /\ remainingBurst[next] - 1 = 0
          /\ LET p == processes[next]
                 start == completion
                 turnaround == completion - p.ArrivalTime + 1
                 wait == turnaround - p.BurstDuration
             IN /\ nextProcess' = next
                /\ serviceTime' = serviceTime + 1
                /\ remainingBurst' = [remainingBurst EXCEPT ![next] = @ - 1]
                /\ totalTurnaround' = totalTurnaround + turnaround
                /\ waitingTime' = wait
                /\ totalWait' = totalWait + wait
                /\ lastCompletion' = completion + 1
                /\ schedule' = [schedule EXCEPT ![next] =
                                  Row(p, wait, turnaround,
                                      completion + p.BurstDuration)]
                /\ completion' = SJFCursorAfter(completion, p)
                /\ gantt' = Append(gantt, TimeSlice(p.ProcessID, start,
                                            SJFCursorAfter(completion, p)))
    /\ processes' = InputAfterWrite(processes, remainingBurst')
    /\ UNCHANGED <<rr2, sched, pc, i, count>>

SJFReturn ==
    /\ sched = "SJF" /\ pc = "loop" /\ ~(completion < N)
    /\ Return

\* ------------------------------------------------------------------------
\* SJFPrioritySchedule
\* ------------------------------------------------------------------------
\* Variant of SJFPriorityBetter that compares the priorities of the processes.
SJFPriorityBetterByPriority(rem, k, next) ==
    next = 0 \/ processes[k].Priority < processes[next].Priority

SJFPriorityBetter(rem, k, next) == next = 0 \/ rem[k] < rem[next]

RECURSIVE SJFPriorityScan(_, _, _, _, _)
SJFPriorityScan(ps, rem, now, k, next) ==
    IF k > Len(ps) THEN next
    ELSE IF /\ rem[k] > 0
            /\ ps[k].ArrivalTime <= now
            /\ SJFPriorityBetter(rem, k, next)
         THEN SJFPriorityScan(ps, rem, now, k + 1, k)
         ELSE SJFPriorityScan(ps, rem, now, k + 1, next)

SJFPrioritySelect(ps, rem, now) == SJFPriorityScan(ps, rem, now, 1, 0)

SJFPriorityIdle ==
    /\ sched = "SJFPriority" /\ pc = "loop" /\ completion < N
    /\ SJFPrioritySelect(processes, remainingBurst, completion) = 0
    /\ nextProcess' = 0
    /\ completion' = completion + 1
    /\ UNCHANGED <<processes, rr2, sched, pc, serviceTime, totalWait,
                   totalTurnaround, lastCompletion, waitingTime, schedule,
                   gantt, remainingBurst, i, count>>

SJFPriorityRun ==
    /\ sched = "SJFPriority" /\ pc = "loop" /\ completion < N
    /\ LET next == SJFPrioritySelect(processes, remainingBurst, completion)
       IN /\ next # 0
          /\ remainingBurst[next] - 1 # 0
          /\ nextProcess' = next
          /\ serviceTime' = serviceTime + 1
          /\ remainingBurst' = [remainingBurst EXCEPT ![next] = @ - 1]
    /\ processes' = InputAfterWrite(processes, remainingBurst')
    /\ UNCHANGED <<rr2, sched, pc, totalWait, totalTurnaround,
                   lastCompletion, waitingTime, schedule, gantt, completion,
                   i, count>>

SJFPriorityComplete ==
    /\ sched = "SJFPriority" /\ pc = "loop" /\ completion < N
    /\ LET next == SJFPrioritySelect(processes, remainingBurst, completion)
       IN /\ next # 0
          /\ remainingBurst[next] - 1 = 0
          /\ LET p == processes[next]
                 start == completion
                 turnaround == completion - p.ArrivalTime + 1
                 wait == turnaround - p.BurstDuration
             IN /\ nextProcess' = next
                /\ serviceTime' = serviceTime + 1
                /\ remainingBurst' = [remainingBurst EXCEPT ![next] = @ - 1]
                /\ totalTurnaround' = totalTurnaround + turnaround
                /\ waitingTime' = wait
                /\ totalWait' = totalWait + wait
                /\ lastCompletion' = completion + 1
                /\ schedule' = [schedule EXCEPT ![next] =
                                  Row(p, wait, turnaround,
                                      completion + p.BurstDuration)]
                /\ completion' = completion + p.BurstDuration
                /\ gantt' = Append(gantt, TimeSlice(p.ProcessID, start,
                                            completion + p.BurstDuration))
    /\ processes' = InputAfterWrite(processes, remainingBurst')
    /\ UNCHANGED <<rr2, sched, pc, i, count>>

SJFPriorityReturn ==
    /\ sched = "SJFPriority" /\ pc = "loop" /\ ~(completion < N)
    /\ Return

\* ------------------------------------------------------------------------
\* RRSchedule (the definition of lines 279-360)
\* ------------------------------------------------------------------------
\* The outer loop test passes: the inner loop starts at the first process.
RRPass ==
    /\ sched = "RR" /\ pc = "loop" /\ i = 0
    /\ completion < N
    /\ i' = 1
    /\ UNCHANGED <<processes, rr2, sched, pc, serviceTime, totalWait,
                   totalTurnaround, lastCompletion, waitingTime, schedule,
                   gantt, remainingBurst, completion, nextProcess, count>>

\* After the last process the inner loop ends and the outer test is next.
RRAdvance(k) == IF k = N THEN 0 ELSE k + 1

\* Variant of RREligible that does not look at the remaining burst.
RREligibleArrived(k) == processes[k].ArrivalTime <= completion

RREligible(k) ==
    remainingBurst[k] > 0 /\ processes[k].ArrivalTime <= completion

\* Process i is finished or has not arrived: the inner loop moves on.
RRSkip ==
    /\ sched = "RR" /\ pc = "loop" /\ i \in 1..N
    /\ ~RREligible(i)
    /\ i' = RRAdvance(i)
    /\ UNCHANGED <<processes, rr2, sched, pc, serviceTime, totalWait,
                   totalTurnaround, lastCompletion, waitingTime, schedule,
                   gantt, remainingBurst, completion, nextProcess, count>>

\* Process i has at most a quantum left.
RRFinal ==
    /\ sched = "RR" /\ pc = "loop" /\ i \in 1..N
    /\ RREligible(i)
    /\ remainingBurst[i] <= quantum
    /\ LET p == processes[i]
           start == completion
           wait == completion - p.ArrivalTime
           turnaround == wait + remainingBurst[i]
       IN /\ serviceTime' = serviceTime + 1
          /\ waitingTime' = wait
          /\ totalWait' = totalWait + wait
          /\ totalTurnaround' = totalTurnaround + turnaround
          /\ lastCompletion' = completion + remainingBurst[i]
          /\ schedule' = [schedule EXCEPT ![i] =
                            Row(p, wait, turnaround,
                                completion + remainingBurst[i])]
          /\ completion' = completion + p.BurstDuration
          /\ gantt' = Append(gantt, TimeSlice(p.ProcessID, start,
                                              completion + p.BurstDuration))
          /\ remainingBurst' = [remainingBurst EXCEPT ![i] = 0]
    /\ i' = RRAdvance(i)
    /\ processes' = InputAfterWrite(processes, remainingBurst')
    /\ UNCHANGED <<rr2, sched, pc, nextProcess, count>>

\* Process i has more than a quantum left.
RRSlice ==
    /\ sched = "RR" /\ pc = "loop" /\ i \in 1..N
    /\ RREligible(i)
    /\ ~(remainingBurst[i] <= quantum)
    /\ LET p == processes[i]
           start == completion
           wait == completion - p.ArrivalTime
           turnaround == wait + quantum
       IN /\ serviceTime' = serviceTime + 1
          /\ waitingTime' = wait
          /\ totalWait' = totalWait + wait
          /\ totalTurnaround' = totalTurnaround + turnaround
          /\ lastCompletion' = completion + quantum
          /\ schedule' = [schedule EXCEPT ![i] =
                            Row(p, wait, turnaround, completion + quantum)]
          /\ completion' = completion + quantum
          /\ gantt' = Append(gantt, TimeSlice(p.ProcessID, start,
                                              completion + quantum))
          /\ remainingBurst' = [remainingBurst EXCEPT ![i] = @ - quantum]
    /\ i' = RRAdvance(i)
    /\ processes' = InputAfterWrite(processes, remainingBurst')
    /\ UNCHANGED <<rr2, sched, pc, nextProcess, count>>

RRReturn ==
    /\ sched = "RR" /\ pc = "loop" /\ i = 0
    /\ ~(completion < N)
    /\ Return

\* ------------------------------------------------------------------------
\* Specifications
\* ------------------------------------------------------------------------
NextFCFS == Call("FCFS") \/ FCFSIter \/ FCFSReturn

NextSJF == Call("SJF") \/ SJFIdle \/ SJFRun \/ SJFComplete \/ SJFReturn

NextSJFPriority ==
    \/ Call("SJFPriority")
    \/ SJFPriorityIdle
    \/ SJFPriorityRun
    \/ SJFPriorityComplete
    \/ SJFPriorityReturn

NextRR == Call("RR") \/ RRPass \/ RRSkip \/ RRFinal \/ RRSlice \/ RRReturn

Next ==
    \/ \E s \in Schedulers : Call(s)
    \/ FCFSIter \/ FCFSReturn
    \/ SJFIdle \/ SJFRun \/ SJFComplete \/ SJFReturn
    \/ SJFPriorityIdle \/ SJFPriorityRun \/ SJFPriorityComplete
    \/ SJFPriorityReturn
    \/ RRPass \/ RRSkip \/ RRFinal \/ RRSlice \/ RRReturn

Spec == Init /\ [][Next]_vars

\* The schedulers on whatever loadProcesses returns.
SpecUnvalidated == InitUnvalidated /\ [][Next]_vars

SpecFCFS == Init /\ [][NextFCFS]_vars

SpecSJF == Init /\ [][NextSJF]_vars

SpecSJFPriority == Init /\ [][NextSJFPriority]_vars

SpecRR == InitRR /\ [][NextRR]_vars

\* SJFSchedule and SJFPrioritySchedule together.
NextSJFBoth == NextSJF \/ NextSJFPriority

SpecSJFBoth == Init /\ [][NextSJFBoth]_vars

\* The two as running programs: a step that can be taken is taken.
FairSpecSJFBoth == Init /\ [][NextSJFBoth]_vars /\ WF_vars(NextSJFBoth)

\* RRSchedule as a running program: a step that can be taken is taken.
FairSpecRR == InitRR /\ [][NextRR]_vars /\ WF_vars(NextRR)

\* ------------------------------------------------------------------------
\* Properties
\* ------------------------------------------------------------------------
\* A valid process set: arrival >= 0, burst > 0, unique ids.
ValidProcessSet ==
    /\ \A k \in 1..N : processes[k].ArrivalTime >= 0
                       /\ processes[k].BurstDuration > 0
    /\ \A k, l \in 1..N : k # l => processes[k].ProcessID # processes[l].ProcessID

\* The rows of the table that have been written.
FilledRows == {k \in DOMAIN schedule : Len(schedule[k]) > 0}

Returned == pc = "return" /\ ValidProcessSet

Max(a, b) == IF a >= b THEN a ELSE b

\* Sum of the bursts of the first k processes.
RECURSIVE BurstSum(_)
BurstSum(k) == IF k = 0 THEN 0 ELSE BurstSum(k - 1) + processes[k].BurstDuration

\* Sum of Stop - Start over the first k slices of the Gantt timeline.
RECURSIVE SliceSum(_)
SliceSum(k) == IF k = 0 THEN 0
               ELSE SliceSum(k - 1) + gantt[k].Stop - gantt[k].Start

\* C1: when a scheduler has returned on a valid process set, the wait
\* written in every table row is >= 0.
C1_WaitNonNegative ==
    Returned => \A k \in FilledRows : schedule[k][ColWait] >= 0

\* C2: when a scheduler has returned on a valid process set, every table
\* row has turnaround = wait + the full input burst of its process.
C2_TurnaroundIsWaitPlusBurst ==
    Returned =>
        \A k \in FilledRows :
            schedule[k][ColTurnaround] =
                schedule[k][ColWait] + processes[k].BurstDuration

\* C3: when a scheduler has returned on a valid process set, every table
\* row has turnaround = exit - arrival and exit >= arrival + burst.
C3_TurnaroundIsExitMinusArrival ==
    Returned =>
        \A k \in FilledRows :
            /\ schedule[k][ColTurnaround] =
                   schedule[k][ColExit] - processes[k].ArrivalTime
            /\ schedule[k][ColExit] >=
                   processes[k].ArrivalTime + processes[k].BurstDuration

\* C4: conservation: when a scheduler has returned on a valid process set,
\* the slice durations of the timeline sum to the sum of the input bursts.
C4_Conservation ==
    Returned => SliceSum(Len(gantt)) = BurstSum(N)

\* C5: on a valid process set every slice of the timeline has Start < Stop,
\* slices are appended in non-decreasing Start order, and two slices of
\* different processes do not overlap in time.
C5_TimelineWellFormed ==
    ValidProcessSet =>
        /\ \A k \in DOMAIN gantt : gantt[k].Start < gantt[k].Stop
        /\ \A k \in DOMAIN gantt :
               k > 1 => gantt[k - 1].Start <= gantt[k].Start
        /\ \A k, l \in DOMAIN gantt :
               gantt[k].PID # gantt[l].PID =>
                   \/ gantt[k].Stop <= gantt[l].Start
                   \/ gantt[l].Stop <= gantt[k].Start

\* C6: when SJFSchedule or SJFPrioritySchedule has returned on a valid
\* non-empty process set, every process has remaining burst 0, exactly one
\* timeline slice and a filled table row.
C6_SJFCompletesAll ==
    (Returned /\ sched \in {"SJF", "SJFPriority"} /\ N > 0) =>
        \A k \in 1..N :
            /\ remainingBurst[k] = 0
            /\ Cardinality({g \in DOMAIN gantt :
                               gantt[g].PID = processes[k].ProcessID}) = 1
            /\ k \in FilledRows

\* C7: when RRSchedule has left its loop on a valid process set, the
\* remaining burst of every process is 0.
C7_RRLoopEndsWhenAllDone ==
    (Returned /\ sched = "RR") => \A k \in 1..N : remainingBurst[k] = 0

\* C8: RRSchedule terminates on every valid process set: once called, it
\* leaves its loop and returns.
C8_RRTerminates ==
    (sched = "RR" /\ pc = "loop" /\ ValidProcessSet) ~> (pc = "return")

\* C9: in FCFSSchedule on a valid process set the wait written for process k
\* is max(0, serviceTimeSoFar - arrival), serviceTimeSoFar being the sum of
\* the bursts of the processes before k.
C9_FCFSWait ==
    (sched = "FCFS" /\ ValidProcessSet) =>
        \A k \in FilledRows :
            schedule[k][ColWait] =
                Max(0, BurstSum(k - 1) - processes[k].ArrivalTime)

\* The processes SJFSchedule may select at its cursor: arrived, not completed.
SJFCandidates ==
    {k \in 1..N : remainingBurst[k] > 0
                  /\ processes[k].ArrivalTime <= completion}

\* C10: every iteration of SJFSchedule's loop that has a candidate (arrived
\* by the cursor, not completed) selects a candidate of smallest burst, and
\* among candidates of that burst the earliest in input order.
C10_SJFSelectsShortestEarliest ==
    [][(sched = "SJF" /\ pc = "loop" /\ pc' = "loop" /\ ValidProcessSet
        /\ SJFCandidates # {}) =>
          /\ nextProcess' \in SJFCandidates
          /\ \A k \in SJFCandidates :
                \/ processes[nextProcess'].BurstDuration
                       < processes[k].BurstDuration
                \/ /\ processes[nextProcess'].BurstDuration
                          = processes[k].BurstDuration
                   /\ nextProcess' <= k]_vars

\* Two processes of equal burst have both arrived, the first was selected
\* and has run, the second has not.
C10_Witness ==
    /\ sched = "SJF" /\ pc = "loop" /\ N >= 2
    /\ nextProcess = 1
    /\ processes[1].BurstDuration = processes[2].BurstDuration
    /\ processes[1].ArrivalTime = 0
    /\ processes[2].ArrivalTime = 0
    /\ remainingBurst[1] < processes[1].BurstDuration
    /\ remainingBurst[2] = processes[2].BurstDuration

\* The processes SJFPrioritySchedule may select at its cursor.
SJFPriorityCandidates ==
    {k \in 1..N : remainingBurst[k] > 0
                  /\ processes[k].ArrivalTime <= completion}

\* C11: every iteration of SJFPrioritySchedule's loop that has a candidate
\* selects a candidate of lowest priority value, whatever the bursts are,
\* and among candidates of that priority the earliest in input order.
C11_PrioritySelectsLowestValue ==
    [][(sched = "SJFPriority" /\ pc = "loop" /\ pc' = "loop"
        /\ ValidProcessSet /\ SJFPriorityCandidates # {}) =>
          /\ nextProcess' \in SJFPriorityCandidates
          /\ \A k \in SJFPriorityCandidates :
                \/ processes[nextProcess'].Priority < processes[k].Priority
                \/ /\ processes[nextProcess'].Priority = processes[k].Priority
                   /\ nextProcess' <= k]_vars

\* ceil(a / b) for b > 0.
CeilDiv(a, b) == (a + b - 1) \div b

\* C12: when RRSchedule has returned on a single process of arrival 0 and
\* burst B > quantum, the timeline has exactly ceil(B / quantum) slices, all
\* of length quantum except the last, whose length is <= quantum.
C12_RRSingleProcessSlices ==
    (sched = "RR" /\ pc = "return" /\ N = 1
     /\ processes[1].ArrivalTime = 0
     /\ processes[1].BurstDuration > quantum) =>
        /\ Len(gantt) = CeilDiv(processes[1].BurstDuration, quantum)
        /\ \A k \in DOMAIN gantt :
               /\ gantt[k].PID = processes[1].ProcessID
               /\ gantt[k].Stop - gantt[k].Start <= quantum
               /\ k < Len(gantt) => gantt[k].Stop - gantt[k].Start = quantum

\* Sum of column col over the filled rows among the first k rows.
RECURSIVE ColumnSum(_, _)
ColumnSum(col, k) ==
    IF k = 0 THEN 0
    ELSE ColumnSum(col, k - 1)
         + (IF k \in FilledRows THEN schedule[k][col] ELSE 0)

\* C13: when a scheduler has returned on a valid process set, the dividend
\* of averageWait is the sum of the waits of the table rows, the dividend of
\* averageTurnaround is the sum of their turnarounds, and the divisor of
\* both is N.
C13_AveragesAreRowSums ==
    Returned =>
        /\ count = N
        /\ totalWait = ColumnSum(ColWait, N)
        /\ totalTurnaround = ColumnSum(ColTurnaround, N)

Max2(a, b) == IF a >= b THEN a ELSE b

\* Largest exit (completion time) among the filled rows of the first k rows;
\* 0 when there is none.
RECURSIVE MaxExit(_)
MaxExit(k) ==
    IF k = 0 THEN 0
    ELSE IF k \in FilledRows THEN Max2(MaxExit(k - 1), schedule[k][ColExit])
         ELSE MaxExit(k - 1)

\* C14: when a scheduler has returned on a valid process set with at least
\* one row written, lastCompletion (the divisor of the throughput) is the
\* largest exit of the table rows and the Stop of the last timeline slice.
C14_LastCompletionIsMaxExit ==
    (Returned /\ FilledRows # {} /\ Len(gantt) > 0) =>
        /\ lastCompletion = MaxExit(N)
        /\ lastCompletion = gantt[Len(gantt)].Stop

\* C15: a scheduler called with an empty process set does not reach the
\* statements after its loop, where totalWait / count, totalTurnaround /
\* count and count / lastCompletion are evaluated.
C15_EmptySetRejected ==
    (N = 0 /\ sched \in Schedulers) => pc # "return"

\* C16: for a process set that is not valid (a burst <= 0, a negative
\* arrival or a repeated id) no timeline slice and no table row is produced.
C16_InvalidInputRejected ==
    ~ValidProcessSet => (Len(gantt) = 0 /\ FilledRows = {})

\* C17: in FCFSSchedule on a valid process set the slice of process k (the
\* k-th slice) starts at max(serviceTimeSoFar, arrival of k), where
\* serviceTimeSoFar is the sum of the bursts before k, and stops at its
\* start + the burst of k.
C17_FCFSSliceStart ==
    (sched = "FCFS" /\ ValidProcessSet) =>
        \A k \in DOMAIN gantt :
            /\ gantt[k].Start = Max(BurstSum(k - 1), processes[k].ArrivalTime)
            /\ gantt[k].Stop = gantt[k].Start + processes[k].BurstDuration

\* The timeline slices of the process at index k.
SlicesOf(k) == {g \in DOMAIN gantt : gantt[g].PID = processes[k].ProcessID}

\* C18: in SJFSchedule on a valid process set a process with a written row
\* has one slice [t, t + burst], and its row has wait = t - arrival and
\* turnaround = wait + burst.
C18_SJFRowFromSlice ==
    (sched = "SJF" /\ ValidProcessSet) =>
        \A k \in FilledRows :
            /\ Cardinality(SlicesOf(k)) = 1
            /\ \A g \in SlicesOf(k) :
                  /\ gantt[g].Stop = gantt[g].Start + processes[k].BurstDuration
                  /\ schedule[k][ColWait] =
                         gantt[g].Start - processes[k].ArrivalTime
                  /\ schedule[k][ColTurnaround] =
                         schedule[k][ColWait] + processes[k].BurstDuration

Min2(a, b) == IF a <= b THEN a ELSE b

\* C19: a step of RRSchedule that runs process i at time t on a valid
\* process set appends the slice [t, t + d] and moves the cursor to t + d,
\* where d is the remaining burst of i when that is <= quantum, and quantum
\* otherwise.
C19_RRSliceLength ==
    [][(sched = "RR" /\ pc = "loop" /\ ValidProcessSet
        /\ i \in 1..N /\ RREligible(i)) =>
          LET d == Min2(remainingBurst[i], quantum)
          IN /\ completion' = completion + d
             /\ gantt' = Append(gantt, TimeSlice(processes[i].ProcessID,
                                                 completion, completion + d))]_vars

\* A loop step of SJFSchedule or SJFPrioritySchedule on a valid process set.
SJFLoopStep ==
    /\ sched \in {"SJF", "SJFPriority"}
    /\ pc = "loop" /\ pc' = "loop"
    /\ ValidProcessSet

\* Sum of the remaining bursts of the first k processes.
RECURSIVE RemainingSum(_)
RemainingSum(k) == IF k = 0 THEN 0 ELSE RemainingSum(k - 1) + remainingBurst[k]

\* What is left of the loop: the cursor's distance to the loop bound plus
\* the units of burst still to be taken.
SJFMeasure == Max(0, N - completion) + RemainingSum(N)

\* C20: SJFSchedule and SJFPrioritySchedule terminate on every valid process
\* set: every loop step strictly decreases SJFMeasure, which never goes
\* below 0; a loop step taken when no process is eligible (arrived and not
\* completed) appends no slice and strictly increases the cursor, and a
\* loop step that takes the last unit of a process increases the cursor by
\* that process's burst.
C20_SJFTerminates ==
    [][SJFLoopStep =>
          /\ SJFMeasure' < SJFMeasure
          /\ SJFMeasure' >= 0
          /\ (SJFCandidates = {}) =>
                 (gantt' = gantt /\ completion' > completion)
          /\ \A k \in 1..N :
                 (remainingBurst[k] > 0 /\ remainingBurst'[k] = 0) =>
                     completion' = completion + processes[k].BurstDuration]_vars

\* The termination of C20 as a liveness property of FairSpecSJFBoth: once
\* called on a valid process set, either scheduler returns.
C20_SJFReturns ==
    (sched \in {"SJF", "SJFPriority"} /\ pc = "loop" /\ ValidProcessSet)
        ~> (pc = "return")

\* SJFSchedule has taken an idle step, nothing having arrived at time 0, and
\* then run the first process, of a burst above one unit, to completion.
C20_Witness ==
    /\ sched = "SJF" /\ pc = "loop" /\ N = 2
    /\ processes[1].ArrivalTime = 1
    /\ processes[2].ArrivalTime = 1
    /\ processes[1].BurstDuration > 1
    /\ remainingBurst[1] = 0
    /\ Len(gantt) = 1
    /\ completion = 1 + processes[1].BurstDuration

RR2Map(ps) ==
    [pid \in {ps[k].ProcessID : k \in 1..Len(ps)} |->
        LET ks == {k \in 1..Len(ps) : ps[k].ProcessID = pid}
        IN ps[CHOOSE k \in ks : \A l \in ks : l <= k].BurstDuration]

\* delete(m, pid)
RR2Delete(m, pid) == [q \in (DOMAIN m) \ {pid} |-> m[q]]

RR2Call(r) ==
    /\ rr2[r].pc \in {"idle", "return"}
    /\ rr2' = [rr2 EXCEPT ![r] =
                 [pc |-> "loop", totalWait |-> 0, totalTurnaround |-> 0,
                  schedule |-> [k \in 1..N |-> NilRow], gantt |-> << >>,
                  currentTime |-> 0, remainingBurst |-> RR2Map(processes),
                  pending |-> {}, count |-> 0]]
    /\ UNCHANGED <<processes, sched, pc, serviceTime, totalWait,
                   totalTurnaround, lastCompletion, waitingTime, schedule,
                   gantt, remainingBurst, completion, nextProcess, i, count>>

\* The outer loop test passes: a range loop over the map starts.
RR2Pass(r) ==
    /\ rr2[r].pc = "loop" /\ rr2[r].pending = {}
    /\ DOMAIN rr2[r].remainingBurst # {}
    /\ rr2' = [rr2 EXCEPT ![r].pending = DOMAIN rr2[r].remainingBurst]
    /\ UNCHANGED <<processes, sched, pc, serviceTime, totalWait,
                   totalTurnaround, lastCompletion, waitingTime, schedule,
                   gantt, remainingBurst, completion, nextProcess, i, count>>

\* The range loop produces key pid, whose process has at most a quantum
\* left.  The order in which a range loop produces the keys of a map is not
\* specified: pid is any key still to be produced.
RR2Final(r, pid) ==
    /\ rr2[r].pc = "loop" /\ pid \in rr2[r].pending
    /\ pid \in 1..N
    /\ rr2[r].remainingBurst[pid] <= quantum
    /\ LET l == rr2[r]
           p == processes[pid]
           start == l.currentTime
           now == l.currentTime + l.remainingBurst[pid]
           wait == now - p.ArrivalTime - p.BurstDuration
           turnaround == now - p.ArrivalTime
       IN rr2' = [rr2 EXCEPT ![r] =
                    [l EXCEPT
                       !.currentTime = now,
                       !.totalWait = @ + wait,
                       !.totalTurnaround = @ + turnaround,
                       !.gantt = Append(@, TimeSlice(pid, start, now)),
                       !.schedule[pid] = <<pid, p.Priority, p.BurstDuration,
                                           p.ArrivalTime, wait, turnaround, now>>,
                       !.remainingBurst = RR2Delete(@, pid),
                       !.pending = @ \ {pid}]]
    /\ UNCHANGED <<processes, sched, pc, serviceTime, totalWait,
                   totalTurnaround, lastCompletion, waitingTime, schedule,
                   gantt, remainingBurst, completion, nextProcess, i, count>>

\* The range loop produces key pid, whose process has more than a quantum left.
RR2Slice(r, pid) ==
    /\ rr2[r].pc = "loop" /\ pid \in rr2[r].pending
    /\ ~(rr2[r].remainingBurst[pid] <= quantum)
    /\ LET l == rr2[r]
           start == l.currentTime
           now == l.currentTime + quantum
       IN rr2' = [rr2 EXCEPT ![r] =
                    [l EXCEPT
                       !.currentTime = now,
                       !.remainingBurst[pid] = @ - quantum,
                       !.gantt = Append(@, TimeSlice(pid, start, now)),
                       !.pending = @ \ {pid}]]
    /\ UNCHANGED <<processes, sched, pc, serviceTime, totalWait,
                   totalTurnaround, lastCompletion, waitingTime, schedule,
                   gantt, remainingBurst, completion, nextProcess, i, count>>

\* The map is empty: count and the three quotients.
RR2Return(r) ==
    /\ rr2[r].pc = "loop" /\ rr2[r].pending = {}
    /\ DOMAIN rr2[r].remainingBurst = {}
    /\ rr2' = [rr2 EXCEPT ![r].pc = "return", ![r].count = N]
    /\ UNCHANGED <<processes, sched, pc, serviceTime, totalWait,
                   totalTurnaround, lastCompletion, waitingTime, schedule,
                   gantt, remainingBurst, completion, nextProcess, i, count>>

NextRR2 ==
    \/ \E r \in Runs : RR2Call(r)
    \/ \E r \in Runs : RR2Pass(r)
    \/ \E r \in Runs : \E pid \in rr2[r].pending : RR2Final(r, pid)
    \/ \E r \in Runs : \E pid \in rr2[r].pending : RR2Slice(r, pid)
    \/ \E r \in Runs : RR2Return(r)

SpecRR2 == Init /\ [][NextRR2]_vars

\* C22: two runs of the second RRSchedule on the same valid process set,
\* whatever order their range loops produce the map's keys in, return the
\* same timeline, the same table rows and the same totals.
C22_RR2OrderIndependent ==
    (ValidProcessSet /\ \A r \in Runs : rr2[r].pc = "return") =>
        /\ rr2[1].gantt = rr2[2].gantt
        /\ rr2[1].schedule = rr2[2].schedule
        /\ rr2[1].totalWait = rr2[2].totalWait
        /\ rr2[1].totalTurnaround = rr2[2].totalTurnaround
        /\ rr2[1].currentTime = rr2[2].currentTime

\* ------------------------------------------------------------------------
\* SJFPrioritySchedule beside SJFSchedule
\* ------------------------------------------------------------------------
\* The variables of the scheduler that is running.
Locals ==
    [pc |-> pc, serviceTime |-> serviceTime, totalWait |-> totalWait,
     totalTurnaround |-> totalTurnaround, lastCompletion |-> lastCompletion,
     waitingTime |-> waitingTime, schedule |-> schedule, gantt |-> gantt,
     remainingBurst |-> remainingBurst, completion |-> completion,
     nextProcess |-> nextProcess, count |-> count]

\* The variables of SJFPrioritySchedule when its loop is reached.
SJFPriorityCalled(ps) ==
    [pc |-> "loop", serviceTime |-> 0, totalWait |-> 0, totalTurnaround |-> 0,
     lastCompletion |-> 0, waitingTime |-> 0,
     schedule |-> [k \in 1..Len(ps) |-> NilRow], gantt |-> << >>,
     remainingBurst |-> getBurstDurations(ps), completion |-> 0,
     nextProcess |-> 0, count |-> 0]

\* SJFPrioritySchedule as a function: the variables after its next step on
\* the slice ps, taken with the variables l (the call, when l is not in the
\* loop; else one iteration of the loop or the statements after it).
SJFPriorityStep(ps, l) ==
    IF l.pc # "loop" THEN SJFPriorityCalled(ps)
    ELSE IF ~(l.completion < Len(ps))
    THEN [l EXCEPT !.pc = "return", !.count = Len(ps)]
    ELSE
      LET next == SJFPrioritySelect(ps, l.remainingBurst, l.completion)
      IN IF next = 0
         THEN [l EXCEPT !.nextProcess = 0, !.completion = @ + 1]
         ELSE IF l.remainingBurst[next] - 1 # 0
         THEN [l EXCEPT !.nextProcess = next,
                        !.serviceTime = @ + 1,
                        !.remainingBurst[next] = @ - 1]
         ELSE
           LET p == ps[next]
               start == l.completion
               turnaround == l.completion - p.ArrivalTime + 1
               wait == turnaround - p.BurstDuration
           IN [l EXCEPT
                 !.nextProcess = next,
                 !.serviceTime = @ + 1,
                 !.remainingBurst[next] = @ - 1,
                 !.totalTurnaround = @ + turnaround,
                 !.waitingTime = wait,
                 !.totalWait = @ + wait,
                 !.lastCompletion = l.completion + 1,
                 !.schedule[next] = Row(p, wait, turnaround,
                                        l.completion + p.BurstDuration),
                 !.completion = @ + p.BurstDuration,
                 !.gantt = Append(@, TimeSlice(p.ProcessID, start,
                                       l.completion + p.BurstDuration))]

SelectedByStep(k) ==
    \/ /\ sched \in {"SJF", "SJFPriority"}
       /\ pc' = "loop"
       /\ nextProcess' = k
    \/ /\ sched = "RR"
       /\ i = k
       /\ (gantt' # gantt \/ schedule' # schedule
           \/ remainingBurst' # remainingBurst \/ completion' # completion)

\* C24: in the loops of SJFSchedule, SJFPrioritySchedule and RRSchedule, for
\* every process k of positive burst, 0 <= remainingBurst[k] <= its burst
\* when the loop is entered and after every step of it; once
\* remainingBurst[k] is 0 it stays 0 and k is not selected again.
C24_RemainingBurstBounded ==
    [][(sched' \in {"SJF", "SJFPriority", "RR"} /\ pc' \in {"loop", "return"}) =>
          \A k \in 1..N :
              processes[k].BurstDuration > 0 =>
                  /\ 0 <= remainingBurst'[k]
                  /\ remainingBurst'[k] <= processes[k].BurstDuration
                  /\ (pc = "loop" /\ remainingBurst[k] = 0) =>
                         /\ remainingBurst'[k] = 0
                         /\ ~SelectedByStep(k)]_vars

\* RRSchedule has completed the second process in its first pass, run the
\* first in its second pass and passed over the second again.
C24_Witness ==
    /\ sched = "RR" /\ pc = "loop" /\ N = 2 /\ i = 0
    /\ remainingBurst[2] = 0
    /\ Len(gantt) = 2
    /\ gantt[1].PID = processes[2].ProcessID
    /\ gantt[2].PID = processes[1].ProcessID

====
